---- MODULE Spec2Model ----
(***************************************************************************)
(* PhysiGen AI: the host (App), the runtime scene (DynamicScene with its   *)
(* ErrorBoundary and frame gate) and the dynamic component compiler        *)
(* (compileComponent).                                                     *)
(*                                                                         *)
(* Every action is one handler (or the continuation of an async handler    *)
(* after its await) together with the React commit that follows it: the    *)
(* state setters of one handler are batched and DynamicScene is rendered   *)
(* once with the resulting props.                                          *)
(***************************************************************************)
EXTENDS Integers, Sequences, FiniteSets, TLC

\* ------------------------------------------------------------- bounds
MaxKey == 2          \* installs / resets explored (cap on refreshKey)
MaxPending == 2      \* requests in flight at the same time
MaxCustom == 1       \* files imported
MaxQuestions == 1    \* explanation requests made

\* ------------------------------------------------------------- values
NoError == "null"    \* error === null
NoSim == [title |-> "", code |-> ""]

INITIAL_CODE == "INITIAL_CODE"

INITIAL_EXPLANATION == "INITIAL_EXPLANATION"

\* A text built by template literals is the tuple of its parts.
\* The explanation that comes with a source (result.explanation,
\* sim.explanation, the text handleFileImport writes for a file): one per
\* source text.
ExplanationOf(sim) == << "about " \o sim.code >>

\* data as constructed by useState in App
InitialData == [code |-> INITIAL_CODE, title |-> "PhysiGen AI",
                explanation |-> <<INITIAL_EXPLANATION>>]

\* What the user asks (one question stands for all)
Questions == { "why?" }

\* What explainPhysics resolves with: the model's text, or the apology of
\* its catch when the call failed.  It never rejects.
Apology == "Sorry, I had trouble analyzing the physics for you."

Answers == { "It is gravity.", Apology }

\* `# Question: ${question}\n\n${answer}\n\n---\n\n`
QABlock(question, answer) ==
  "# Question: " \o question \o "\n\n" \o answer \o "\n\n---\n\n"

\* entry: QAEntry (timestamp and simulationTitle are left out)
QAEntry(question, answer) == [question |-> question, answer |-> answer]

AppendTo(entry, prev) == prev \o <<entry>>

\* [entry, ...prev] and `${block}${prev.explanation}`
Prepend(entry, prev) == <<entry>> \o prev

\* Two entries of the built-in library stand for the table.
PERFECT_SIMULATIONS ==
  [k \in {"newton's cradle", "double pendulum"} |->
     IF k = "newton's cradle"
       THEN [title |-> "Newton's Cradle", code |-> "lib_cradle"]
       ELSE [title |-> "Double Pendulum Chaos", code |-> "lib_pendulum"]]

\* What the model client can answer (componentCode, title): code that runs,
\* code Babel rejects, code that throws while rendering (at mount, or at a
\* later update), code that registers a frame callback through the
\* ReactThreeFiber namespace, code that uses no scene primitive at all.
ModelResults ==
  { [title |-> "AI Scene", code |-> "gen_ok"],
    [title |-> "AI Scene", code |-> "gen_blank"],
    [title |-> "AI Scene", code |-> "gen_syntax"],
    [title |-> "AI Scene", code |-> "gen_throw"],
    [title |-> "AI Scene", code |-> "gen_late"],
    [title |-> "AI Scene", code |-> "gen_raw"] }

\* /<(mesh|points|line|instancedMesh|drei\.)/i.test(code)
hasMesh(code) == code # "gen_blank"

\* /return\s*\(/i.test(code)
hasReturn(code) == TRUE

\* validateSimulationCode(code): the text uses a scene primitive and
\* returns an expression in parentheses
validateSimulationCode(code) == hasMesh(code) /\ hasReturn(code)

\* generateSimulation resolves with a library entry (prompt contains a key)
\* or with a model result that passed validateSimulationCode
GenerateResults ==
  { PERFECT_SIMULATIONS[k] : k \in DOMAIN PERFECT_SIMULATIONS }
    \cup { r \in ModelResults : validateSimulationCode(r.code) }

\* modifySimulation resolves with whatever the model answered
ModifyResults == ModelResults

\* err.message of a rejected generateSimulation ("" : an error without message)
GenerateFailures ==
  { "No response from Gemini", "",
    "Simulation generation failed validation: No 3D objects detected." }

\* Files the user can import: title is the file name without extension.
\* One is named like the scene shown at start ('PhysiGen AI.tsx').
ImportFiles ==
  { [title |-> "PhysiGen AI", code |-> "file_ok"],
    [title |-> "broken", code |-> "file_bad"] }

\* ------------------------------------------------- compiled code, abstractly
\* What compileComponent does with a source text: returns a component, or
\* throws err (message may be empty).
CompileOutcome(code) ==
  CASE code = "gen_syntax" -> [ok |-> FALSE, message |-> "Unexpected token"]
    [] code = "file_bad"   -> [ok |-> FALSE, message |-> ""]
    [] OTHER               -> [ok |-> TRUE,  message |-> ""]

\* When the compiled component throws while React renders it.
RenderThrows(code) ==
  CASE code = "gen_throw" -> "mount"
    [] code = "gen_late"  -> "update"
    [] OTHER              -> "never"

\* The capabilities handed to createComponent through which a per-frame
\* callback can be registered, and whether the value passed is the gate.
\* 'useFrame' receives overrides.useFrame (customUseFrame); 'ReactThreeFiber'
\* receives the whole Fiber namespace, whose useFrame is the scheduler's own.
FrameCapabilities ==
  [c \in {"useFrame", "ReactThreeFiber.useFrame"} |-> (c = "useFrame")]

\* The per-frame callbacks a compiled component registers when it mounts:
\* how many, and through which capability each.
Registrations(code) ==
  CASE code = "gen_ok"     -> <<"useFrame", "useFrame", "useFrame">>
    [] code = "lib_cradle" -> <<"useFrame", "useFrame">>
    [] code = "gen_raw"    -> <<"useFrame", "ReactThreeFiber.useFrame">>
    [] OTHER               -> <<"useFrame">>

\* The renderPriority each of those registrations asks for (0: none given)
Priorities(code) ==
  CASE code = "gen_ok"     -> <<0, 1, 0>>
    [] code = "lib_cradle" -> <<0, 0>>
    [] code = "gen_raw"    -> <<1, 0>>
    [] OTHER               -> <<0>>

\* What the scheduler hands to a subscriber on a frame: the root state and
\* the time since the last frame
FrameState == "state"

Deltas == {16, 33}

\* ------------------------------------------------------------- state
VARIABLES
  status,        \* App: SimulationStatus
  data,          \* App: data.code, data.title
  error,         \* App: error
  refreshKey,    \* App: refreshKey (DynamicScene key)
  customSims,    \* App: customSims, in insertion order
  qaHistory,     \* App: qaHistory, newest first
  pending,       \* async handlers suspended at their await
  scene,         \* the mounted DynamicScene instance
  subs,          \* callbacks subscribed to the frame scheduler
  paused,        \* leva: the 'paused' control
  simSettings,   \* DynamicScene: simSettings.current.paused
  ev,            \* what the last step did: compile calls, mounts, exceptions
                 \* caught by ErrorBoundary, onError calls, a frame tick
  input,         \* compileComponent: the source text handed to it, in parts
  output,        \* compileComponent: sourceCode and returnStatement it built
  localStorage,  \* storage.ts: the item stored under STORAGE_KEY
  calls,         \* storage.ts: the calls made so far, with what they returned
  GENERATION_CACHE,  \* gemini.ts: the session's cache of generated results
  generated      \* gemini.ts: the last call of generateSimulation

appVars == <<status, data, error, refreshKey, customSims, qaHistory, pending, scene,
             subs, paused, simSettings, ev>>

serviceVars == <<localStorage, calls, GENERATION_CACHE, generated>>

vars == <<appVars, input, output, serviceVars>>

\* An exception: name and message of an Error; value is what was thrown
\* when it is not an Error (it has no message property)
NoException == [name |-> "", message |-> "", value |-> ""]

Exception(name, message) == [name |-> name, message |-> message, value |-> ""]

\* No text has been handed to compileComponent / nothing built yet
NoInput ==
  [imports |-> <<>>, prelude |-> <<>>, form |-> "none", trailers |-> <<>>,
   env |-> "none"]

\* localStorage.getItem(STORAGE_KEY) when nothing was stored: null
NoItem == [present |-> FALSE, json |-> <<>>]

\* generateSimulation has not been called
NoCall == [prompt |-> <<>>, outcome |-> "none", value |-> NoSim, message |-> "",
           modelCalls |-> 0, cacheReads |-> 0]

NotCompiled ==
  [version |-> "none", pass |-> 0, sourceCode |-> <<>>, returnStatement |-> <<>>,
   steps |-> <<>>, thrown |-> NoException, reached |-> {}]

\* ran[i]: how often the callback of subs[i] ran in the step, a frame tick
\* registered[i]: the priority subs[i] was subscribed with, in the step that
\* mounted it; delta, got[i]: what the scheduler passed in the tick and what
\* the callback of subs[i] received (<<>>: it was not called)
NoEvents == [compiles |-> 0, mounts |-> 0, caught |-> 0, onError |-> 0,
             tick |-> FALSE, ran |-> <<>>,
             registered |-> <<>>, delta |-> 0, got |-> <<>>]

Installers == {"generate", "modify", "preset"}

InstallersPending == Len(SelectSeq(pending, LAMBDA r : r.kind \in Installers))

\* A suspended handler with what its closure holds: originalStatus and
\* question (performExplanation only), sim (handlePresetClick only).  For a handler
\* that will install a source, startKey is the value of refreshKey when it
\* began; no handler reads it.
Request(kind, orig, sim) ==
  [kind |-> kind,
   originalStatus |-> IF kind = "explain" THEN orig ELSE "",
   sim |-> sim,
   question |-> "",
   startKey |-> IF kind \in Installers THEN refreshKey ELSE 0]

RemoveAt(s, i) == SubSeq(s, 1, i - 1) \o SubSeq(s, i + 1, Len(s))

NotAnswering == status # "EXPLAINING"

\* status === READY || status === IDLE: InputBar's !isLoading and the
\* library buttons' !disabled
Idle == status \in {"READY", "IDLE"}

\* ------------------------------------------------------- DynamicScene
UseMemoWithoutDeps(key, code) == FALSE

UseMemoWithPausedDep(key, code) ==
  key = scene.key /\ code = scene.memoCode /\ paused' = paused

\* useMemo(() => compileComponent(...), [code, onError, customUseFrame]):
\* onError (useCallback, []) and customUseFrame (useCallback, []) never
\* change, so the cached value is reused when the instance is the same
\* (same key) and code is the same.
UseMemoHit(key, code) == key = scene.key /\ code = scene.memoCode

\* message of the exception a compiled component throws while rendering
RenderErrorMessage == "boom"

\* customUseFrame(callback, priority): useFrame(wrapper, priority)
GatePriority(priority) == priority

\* The priorities the subscriptions of a mounting component are made with
Registered(code) ==
  [i \in 1..Len(Registrations(code)) |->
     IF FrameCapabilities[Registrations(code)[i]]
       THEN GatePriority(Priorities(code)[i])
       ELSE Priorities(code)[i]]

\* What the mounted component subscribes with the frame scheduler: one
\* subscription per registration, with the capability it came through
Subscribe(code) == Registrations(code)

\* What ErrorBoundary does with an exception thrown below it:
\* getDerivedStateFromError sets its state, componentDidCatch logs.
\* Returns the number of onError calls it makes.
BoundaryReports == 0

\* The message the useMemo catch passes to onError
onErrorMessage(err) ==
  IF err.message # "" THEN err.message ELSE "Failed to compile code"

\* One render of DynamicScene with props (key, code), as React commits it:
\* a new instance when the key changed, the useMemo compile, the onError
\* call of the catch, the mount of the compiled component inside
\* ErrorBoundary.  reported is the message passed to onError (NoError: none).
Render(key, code) ==
  IF UseMemoHit(key, code)
    THEN [scene |-> scene, subs |-> subs, ev |-> NoEvents, reported |-> NoError]
    ELSE
      LET out == CompileOutcome(code)
          \* ErrorBoundary is a new instance after a remount, or when the
          \* previous render returned null (nothing was mounted)
          fresh == key # scene.key \/ ~scene.Component
          keepsFallback == ~fresh /\ scene.hasError
          throws == RenderThrows(code) = "mount"
      IN  IF ~out.ok
            THEN [scene |-> [key |-> key, memoCode |-> code, Component |-> FALSE,
                             hasError |-> FALSE, boundaryError |-> ""],
                  subs |-> <<>>,
                  ev |-> [NoEvents EXCEPT !.compiles = 1, !.onError = 1],
                  reported |-> onErrorMessage(out)]
          ELSE IF keepsFallback
            THEN [scene |-> [scene EXCEPT !.memoCode = code],
                  subs |-> <<>>,
                  ev |-> [NoEvents EXCEPT !.compiles = 1],
                  reported |-> NoError]
          ELSE
                 [scene |-> [key |-> key, memoCode |-> code, Component |-> TRUE,
                             hasError |-> throws,
                             boundaryError |-> IF throws THEN RenderErrorMessage ELSE ""],
                  subs |-> IF throws THEN <<>> ELSE Subscribe(code),
                  ev |-> [NoEvents EXCEPT !.compiles = 1, !.mounts = 1,
                                          !.registered = IF throws THEN <<>>
                                                         ELSE Registered(code),
                                          !.caught = IF throws THEN 1 ELSE 0,
                                          !.onError = IF throws THEN BoundaryReports ELSE 0],
                  reported |-> NoError]

\* handleRuntimeError(msg): setError(`Runtime Error: ${msg}`)
handleRuntimeError(msg) == "Runtime Error: " \o msg

CommitWithStaleRef(key, code, err) ==
  LET r == Render(key, code)
  IN  /\ scene' = r.scene
      /\ subs' = r.subs
      /\ ev' = r.ev
      /\ error' = IF r.reported # NoError THEN handleRuntimeError(r.reported) ELSE err
      /\ simSettings' = simSettings

\* The commit after a handler that left (key, code) as props and err as the
\* error state: renders DynamicScene; an onError call during the render
\* replaces the error.
Commit(key, code, err) ==
  LET r == Render(key, code)
  IN  /\ scene' = r.scene
      /\ subs' = r.subs
      /\ ev' = r.ev
      /\ error' = IF r.reported # NoError THEN handleRuntimeError(r.reported) ELSE err
      /\ simSettings' = paused'

\* ------------------------------------------------------------- Init
\* App after its first render: DynamicScene key 0 has compiled and mounted
\* INITIAL_CODE.
AppInit ==
  /\ status = "IDLE"
  /\ data = InitialData
  /\ error = NoError
  /\ refreshKey = 0
  /\ customSims = <<>>
  /\ qaHistory = <<>>
  /\ pending = <<>>
  /\ scene = [key |-> 0, memoCode |-> INITIAL_CODE, Component |-> TRUE,
              hasError |-> FALSE, boundaryError |-> ""]
  /\ subs = Subscribe(INITIAL_CODE)
  /\ paused = FALSE
  /\ simSettings = FALSE
  /\ ev = [NoEvents EXCEPT !.compiles = 1, !.mounts = 1,
                           !.registered = Registered(INITIAL_CODE)]

\* Nothing stored, nothing cached, no call made
ServiceInit ==
  /\ localStorage = NoItem /\ calls = <<>>
  /\ GENERATION_CACHE = <<>> /\ generated = NoCall

Init == AppInit /\ input = NoInput /\ output = NotCompiled /\ ServiceInit

\* Room for one more install or reset within MaxKey
KeyRoom == refreshKey + InstallersPending < MaxKey

\* ------------------------------------------------------------- App
\* Room for one more explanation request within MaxQuestions
QuestionRoom ==
  Len(qaHistory) + Len(SelectSeq(pending, LAMBDA r : r.kind = "explain"))
    < MaxQuestions

KeepKey(prev) == prev

SkipKey(prev) == prev + 2

\* setRefreshKey(prev => prev + 1)
NextKey(prev) == prev + 1

\* InputBar.handleSubmit -> handleSimulationRequest(prompt), up to the await.
\* route: what the prompt's first / last words select.
handleSimulationRequest(route) ==
  /\ Idle                                   \* InputBar: !isLoading
  /\ Len(pending) < MaxPending
  /\ LET isQuestion == route = "question"
         isModification == Idle /\ route = "modification"
         hasCode == data.code # ""
     IN  IF isQuestion /\ hasCode
           THEN /\ QuestionRoom
                /\ \E q \in Questions :
                     pending' = Append(pending,
                        [Request("explain", status, NoSim) EXCEPT !.question = q])
                /\ status' = "EXPLAINING"
         ELSE IF isModification /\ hasCode
           THEN /\ KeyRoom
                /\ pending' = Append(pending, Request("modify", status, NoSim))
                /\ status' = "MODIFYING"
         ELSE   /\ KeyRoom
                /\ pending' = Append(pending, Request("generate", status, NoSim))
                /\ status' = "GENERATING"
  /\ UNCHANGED <<serviceVars, input, output, qaHistory, data, refreshKey, customSims, paused>>
  /\ Commit(refreshKey, data.code, NoError)     \* setError(null)

SubmitPrompt == \E route \in {"question", "modification", "generation"} :
                   handleSimulationRequest(route)

\* ExplanationPanel.handleAsk -> performExplanation(q), up to the await.
\* The panel's input and button are disabled only while isAnswering.
AskQuestion ==
  /\ status # "EXPLAINING"
  /\ Len(pending) < MaxPending
  /\ QuestionRoom
  /\ \E q \in Questions :
       pending' = Append(pending,
          [Request("explain", status, NoSim) EXCEPT !.question = q])
  /\ status' = "EXPLAINING"
  /\ UNCHANGED <<serviceVars, input, output, qaHistory, data, refreshKey, customSims, paused>>
  /\ Commit(refreshKey, data.code, error)

\* performGeneration after the await: generateSimulation resolved with result
GenerationSucceeds(i, result) ==
  /\ pending[i].kind = "generate"
  /\ pending' = RemoveAt(pending, i)
  /\ data' = [code |-> result.code, title |-> result.title,
               explanation |-> ExplanationOf(result)]
  /\ refreshKey' = NextKey(refreshKey)
  /\ status' = "READY"
  /\ UNCHANGED <<serviceVars, input, output, qaHistory, customSims, paused>>
  /\ Commit(refreshKey', data'.code, error)

GenerationFailsWithoutFallback(i, m) ==
  /\ pending[i].kind = "generate"
  /\ pending' = RemoveAt(pending, i)
  /\ status' = "ERROR"
  /\ UNCHANGED <<serviceVars, input, output, qaHistory, data, refreshKey, customSims, paused>>
  /\ Commit(refreshKey, data.code, IF m # "" THEN m ELSE NoError)

\* performGeneration's catch: generateSimulation rejected with err.message = m
GenerationFails(i, m) ==
  /\ pending[i].kind = "generate"
  /\ pending' = RemoveAt(pending, i)
  /\ status' = "ERROR"
  /\ UNCHANGED <<serviceVars, input, output, qaHistory, data, refreshKey, customSims, paused>>
  /\ Commit(refreshKey, data.code,
            IF m # "" THEN m ELSE "Failed to generate simulation.")

SettleGeneration ==
  \E i \in 1..Len(pending) :
     \/ \E result \in GenerateResults : GenerationSucceeds(i, result)
     \/ \E m \in GenerateFailures : GenerationFails(i, m)

\* performModification after the await
ModificationSucceeds(i, result) ==
  /\ pending[i].kind = "modify"
  /\ pending' = RemoveAt(pending, i)
  /\ data' = [code |-> result.code, title |-> result.title,
               explanation |-> ExplanationOf(result)]
  /\ refreshKey' = NextKey(refreshKey)
  /\ status' = "READY"
  /\ UNCHANGED <<serviceVars, input, output, qaHistory, customSims, paused>>
  /\ Commit(refreshKey', data'.code, error)

ModificationFailsLikeGeneration(i) ==
  /\ pending[i].kind = "modify"
  /\ pending' = RemoveAt(pending, i)
  /\ status' = "ERROR"
  /\ UNCHANGED <<serviceVars, input, output, qaHistory, data, refreshKey, customSims, paused>>
  /\ Commit(refreshKey, data.code, "Failed to modify simulation. Try a simpler request.")

\* performModification's catch: modifySimulation rejected
ModificationFails(i) ==
  /\ pending[i].kind = "modify"
  /\ pending' = RemoveAt(pending, i)
  /\ status' = "READY"
  /\ UNCHANGED <<serviceVars, input, output, qaHistory, data, refreshKey, customSims, paused>>
  /\ Commit(refreshKey, data.code, "Failed to modify simulation. Try a simpler request.")

SettleModification ==
  \E i \in 1..Len(pending) :
     \/ \E result \in ModifyResults : ModificationSucceeds(i, result)
     \/ ModificationFails(i)

\* performExplanation after the await.  explainPhysics catches its own
\* errors and always resolves, so only the try branch runs.
SettleExplanation ==
  \E i \in 1..Len(pending), answer \in Answers :
     /\ pending[i].kind = "explain"
     /\ pending' = RemoveAt(pending, i)
     /\ qaHistory' = Prepend(QAEntry(pending[i].question, answer), qaHistory)
     /\ data' = [data EXCEPT   \* setData(prev => ({ ...prev, explanation }))
                   !.explanation = Prepend(QABlock(pending[i].question, answer), @)]
     /\ status' = IF pending[i].originalStatus = "IDLE" THEN "READY"
                                                        ELSE pending[i].originalStatus
     /\ UNCHANGED <<serviceVars, input, output, refreshKey, customSims, paused>>
     /\ Commit(refreshKey, data.code, error)

\* All entries a library button exists for: custom ones first
LibraryEntries ==
  { customSims[i] : i \in 1..Len(customSims) }
    \cup { PERFECT_SIMULATIONS[k] : k \in DOMAIN PERFECT_SIMULATIONS }

\* handlePresetClick(key) up to its await (the fake loading delay)
handlePresetClick(sim) ==
  /\ Idle                                   \* button: disabled unless READY / IDLE
  /\ Len(pending) < MaxPending
  /\ KeyRoom
  /\ status' = "GENERATING"
  /\ pending' = Append(pending, Request("preset", status, sim))
  /\ UNCHANGED <<serviceVars, input, output, qaHistory, data, refreshKey, customSims, paused>>
  /\ Commit(refreshKey, data.code, NoError)

PresetClick == \E sim \in LibraryEntries : handlePresetClick(sim)

\* handlePresetClick after the delay
SettlePreset ==
  \E i \in 1..Len(pending) :
     /\ pending[i].kind = "preset"
     /\ pending' = RemoveAt(pending, i)
     /\ data' = [code |-> pending[i].sim.code, title |-> pending[i].sim.title,
                  explanation |-> ExplanationOf(pending[i].sim)]
     /\ refreshKey' = NextKey(refreshKey)
     /\ status' = "READY"
     /\ UNCHANGED <<serviceVars, input, output, qaHistory, customSims, paused>>
     /\ Commit(refreshKey', data'.code, error)

\* The entry handleReset finds for the current title: a custom one first,
\* then a built-in one, else none (NoSim)
ResetTarget ==
  LET custom == SelectSeq(customSims, LAMBDA s : s.title = data.title)
      lib == { k \in DOMAIN PERFECT_SIMULATIONS : PERFECT_SIMULATIONS[k].title = data.title }
  IN  IF Len(custom) > 0 THEN custom[1]
      ELSE IF lib # {} THEN PERFECT_SIMULATIONS[CHOOSE k \in lib : TRUE]
      ELSE NoSim

\* handleReset: the button is always enabled
handleReset ==
  /\ KeyRoom
  /\ data' = IF ResetTarget # NoSim
               THEN [code |-> ResetTarget.code, title |-> ResetTarget.title,
                     explanation |-> ExplanationOf(ResetTarget)]
               ELSE data
  /\ refreshKey' = NextKey(refreshKey)
  /\ UNCHANGED <<serviceVars, input, output, qaHistory, status, customSims, pending, paused>>
  /\ Commit(refreshKey', data'.code, error)

\* handleFileImport with reader.onload: adds one entry to customSims
handleFileImport ==
  \E f \in ImportFiles :
     /\ Len(customSims) < MaxCustom
     /\ customSims' = Append(customSims, f)
     /\ UNCHANGED <<serviceVars, input, output, qaHistory, status, data, refreshKey, pending, paused>>
     /\ Commit(refreshKey, data.code, error)

\* the error notification's close button: setError(null)
DismissError ==
  /\ error # NoError
  /\ UNCHANGED <<serviceVars, input, output, qaHistory, status, data, refreshKey, customSims, pending, paused>>
  /\ Commit(refreshKey, data.code, NoError)

\* ------------------------------------------------------- scene events
\* The user flips the leva 'paused' control: DynamicScene re-renders and
\* stores the value in simSettings.current.
TogglePause ==
  /\ paused' = ~paused
  /\ UNCHANGED <<serviceVars, input, output, qaHistory, status, data, refreshKey, customSims, pending>>
  /\ Commit(refreshKey, data.code, error)

GateIgnoresPause(isPaused) == 1

\* The wrapper customUseFrame registers: skip while paused, else call through.
\* Returns how often the underlying callback runs in one tick.
GateCalls(isPaused) == IF isPaused THEN 0 ELSE 1

GateResetsDelta(isPaused, state, delta) ==
  IF isPaused THEN <<>> ELSE <<state, 0>>

\* The same wrapper: what it passes to the underlying callback
\* (callback(state, delta)), <<>> when it returns without calling it
GateForwards(isPaused, state, delta) ==
  IF isPaused THEN <<>> ELSE <<state, delta>>

\* One frame of the scheduler: every subscriber is called once.  A callback
\* registered through the gate is wrapped; one registered through the
\* namespace is called directly.
FrameTick ==
  /\ scene.Component                        \* the Canvas exists
  /\ \E delta \in Deltas :
       ev' = [NoEvents EXCEPT
                !.tick = TRUE,
                !.ran = [i \in 1..Len(subs) |->
                           IF FrameCapabilities[subs[i]] THEN GateCalls(simSettings) ELSE 1],
                !.delta = delta,
                !.got = [i \in 1..Len(subs) |->
                           IF FrameCapabilities[subs[i]]
                             THEN GateForwards(simSettings, FrameState, delta)
                             ELSE <<FrameState, delta>>]]
  /\ UNCHANGED <<serviceVars, input, output, qaHistory, status, data, error, refreshKey, customSims, pending, scene,
                 subs, paused, simSettings>>

\* The mounted component throws while React re-renders it (an update):
\* ErrorBoundary catches, shows ErrorFallback, the component unmounts.
RuntimeThrow ==
  /\ scene.Component /\ ~scene.hasError
  /\ RenderThrows(scene.memoCode) = "update"
  /\ scene' = [scene EXCEPT !.hasError = TRUE, !.boundaryError = RenderErrorMessage]
  /\ subs' = <<>>
  /\ ev' = [NoEvents EXCEPT !.caught = 1, !.onError = BoundaryReports]
  /\ UNCHANGED <<serviceVars, input, output, qaHistory, status, data, error, refreshKey, customSims, pending,
                 paused, simSettings>>

Next ==
  \/ SubmitPrompt
  \/ AskQuestion
  \/ SettleGeneration
  \/ SettleModification
  \/ SettleExplanation
  \/ PresetClick
  \/ SettlePreset
  \/ handleReset
  \/ handleFileImport
  \/ DismissError
  \/ TogglePause
  \/ FrameTick
  \/ RuntimeThrow

Spec == Init /\ [][Next]_vars

\* ------------------------------------------------------- what is shown
\* DynamicScene's output: null when Component is null; else the Canvas with
\* camera, lights and ground, and inside ErrorBoundary either the compiled
\* component or ErrorFallback.
SceneView ==
  IF ~scene.Component
    THEN [canvas |-> FALSE, content |-> "nothing"]
    ELSE [canvas |-> TRUE,
          content |-> IF scene.hasError THEN "ErrorFallback" ELSE "Component"]

\* The current source failed: its compile threw, or ErrorBoundary caught it
SourceFailed == ~scene.Component \/ scene.hasError

Running == scene.Component /\ ~scene.hasError

\* A step that is handleReset: the only handler that increments refreshKey
\* and leaves pending and status alone
ResetStep == refreshKey' = refreshKey + 1 /\ pending' = pending /\ status' = status

\* ------------------------------------------- compileComponent: the text
\* Source text is a tuple of one-character strings, so that the regular
\* expressions of compileComponent can be followed character by character.
\* A matcher M(s, i) gives the index just after the match of its expression
\* that starts at index i of s, and 0 when there is none.

Newline == "\n"

\* \s
Whitespace == {" ", Newline, "\t"}

\* [a-zA-Z0-9_], \w
WordChars ==
  {"a", "b", "c", "d", "e", "f", "g", "h", "i", "j", "k", "l", "m", "n", "o",
   "p", "q", "r", "s", "t", "u", "v", "w", "x", "y", "z",
   "A", "B", "C", "D", "E", "F", "G", "H", "I", "J", "K", "L", "M", "N", "O",
   "P", "Q", "R", "S", "T", "U", "V", "W", "X", "Y", "Z",
   "0", "1", "2", "3", "4", "5", "6", "7", "8", "9", "_"}

Punctuation ==
  {"<", ">", "/", ";", "(", ")", "{", "}", "=", "'", "*", ",", ".", ":", "!"}

Alphabet == WordChars \cup Whitespace \cup Punctuation

\* .  (any character but a line terminator)
Dot == Alphabet \ {Newline}

Least(S) == CHOOSE x \in S : \A y \in S : x <= y

Greatest(S) == CHOOSE x \in S : \A y \in S : y <= x

\* String.prototype.trim
trim(s) ==
  LET keep == {i \in 1..Len(s) : s[i] \notin Whitespace}
  IN  IF keep = {} THEN <<>> ELSE SubSeq(s, Least(keep), Greatest(keep))

\* String.prototype.includes
Includes(s, w) ==
  \E i \in 1..(Len(s) - Len(w) + 1) : SubSeq(s, i, i + Len(w) - 1) = w

\* a literal word at i
Lit(s, i, w) ==
  IF i # 0 /\ i + Len(w) - 1 <= Len(s) /\ SubSeq(s, i, i + Len(w) - 1) = w
    THEN i + Len(w)
    ELSE 0

\* the end of the longest run of characters of class that starts at i
RunEnd(s, i, class) ==
  LET stop == {j \in i..Len(s) : s[j] \notin class}
  IN  IF stop = {} THEN Len(s) + 1 ELSE Least(stop)

\* class*  (greedy)
Star(s, i, class) == IF i = 0 THEN 0 ELSE RunEnd(s, i, class)

\* class+  (greedy)
Plus(s, i, class) ==
  IF i = 0 \/ RunEnd(s, i, class) = i THEN 0 ELSE RunEnd(s, i, class)

\* The matches of one expression in s, as a function: m[i] is the index just
\* after the match that starts at i, 0 when there is none.
\* String.prototype.match / test without the g flag: where the leftmost
\* match starts, 0 for null
FirstMatch(m) ==
  LET at == {i \in DOMAIN m : m[i] # 0}
  IN  IF at = {} THEN 0 ELSE Least(at)

\* String.prototype.replace without the g flag
Replace(s, m, by) ==
  LET i == FirstMatch(m)
  IN  IF i = 0 THEN s
      ELSE SubSeq(s, 1, i - 1) \o by \o SubSeq(s, m[i], Len(s))

\* String.prototype.replace with the g flag and '' as the replacement: the
\* search resumes where the last match ended
RemoveAll(s, m) ==
  LET R[i \in 1..(Len(s) + 1)] ==
        LET at == {j \in i..Len(s) : m[j] # 0}
        IN  IF at = {} THEN SubSeq(s, i, Len(s))
            ELSE SubSeq(s, i, Least(at) - 1) \o R[m[Least(at)]]
  IN  R[1]

\* ^ and $ with the m flag
AtLineStart(s, i) == i = 1 \/ s[i - 1] = Newline

AtLineEnd(s, i) == i = Len(s) + 1 \/ s[i] = Newline

\* /^\s*import\s+/m
ImportHead(s, i) ==
  IF AtLineStart(s, i)
    THEN Plus(s, Lit(s, Star(s, i, Whitespace), <<"i", "m", "p", "o", "r",
          "t">>), Whitespace)
    ELSE 0

\* /\s*$/m from q, greedy: the last line end within the whitespace run
LineTail(s, q) ==
  LET stops == {j \in q..RunEnd(s, q, Whitespace) : AtLineEnd(s, j)}
  IN  IF stops = {} THEN 0 ELSE Greatest(stops)

\* /^\s*import\s+[\s\S]*?;\s*$/m : lazily up to the first ';' that is
\* followed by whitespace up to a line end, on whichever line that is
ImportStatement(s, i) ==
  LET h == ImportHead(s, i)
      ends == {p \in h..Len(s) : s[p] = ";" /\ LineTail(s, p + 1) # 0}
  IN  IF h = 0 \/ ends = {} THEN 0 ELSE LineTail(s, Least(ends) + 1)

\* /^\s*import\s+.*$/m
ImportLine(s, i) == Star(s, ImportHead(s, i), Dot)

\* cleanBody after "1. Aggressively remove Import statements"
StripImports(s) ==
  LET first == RemoveAll(s, [i \in 1..Len(s) |-> ImportStatement(s, i)])
  IN  RemoveAll(first, [i \in 1..Len(first) |-> ImportLine(first, i)])

\* /export\s+default\s+/
ExportDefault(s, i) ==
  Plus(s, Lit(s, Plus(s, Lit(s, i, <<"e", "x", "p", "o", "r", "t">>),
        Whitespace), <<"d", "e", "f", "a", "u", "l", "t">>),
       Whitespace)

\* /export\s+default\s+function/
ExportDefaultFunction(s, i) == Lit(s, ExportDefault(s, i), <<"f", "u", "n",
      "c", "t", "i", "o", "n">>)

\* /export\s+default\s+function\s+([a-zA-Z0-9_]+)/
ExportDefaultFunctionName(s, i) ==
  Plus(s, Plus(s, ExportDefaultFunction(s, i), Whitespace), WordChars)

\* /export\s+default\s+([a-zA-Z0-9_]+)/
ExportDefaultName(s, i) == Plus(s, ExportDefault(s, i), WordChars)

\* /export\s+default\s+[a-zA-Z0-9_]+;?/
ExportDefaultStatement(s, i) ==
  LET e == ExportDefaultName(s, i)
  IN  IF e # 0 /\ e <= Len(s) /\ s[e] = ";" THEN e + 1 ELSE e

hasExportDefault(s) == FirstMatch([i \in 1..Len(s) |-> ExportDefault(s,
      i)]) # 0

NoFuncMatch(s) == <<>>

\* funcMatch[1], <<>> when funcMatch is null
funcMatch(s) ==
  LET i == FirstMatch([j \in 1..Len(s) |-> ExportDefaultFunctionName(s, j)])
  IN  IF i = 0 THEN <<>>
      ELSE SubSeq(s, Plus(s, ExportDefaultFunction(s, i), Whitespace),
                  ExportDefaultFunctionName(s, i) - 1)

\* varMatch[1], <<>> when varMatch is null
varMatch(s) ==
  LET i == FirstMatch([j \in 1..Len(s) |-> ExportDefaultName(s, j)])
  IN  IF i = 0 THEN <<>>
      ELSE SubSeq(s, ExportDefault(s, i), ExportDefaultName(s, i) - 1)

DynamicComponent == <<"D", "y", "n", "a", "m", "i", "c", "C", "o", "m", "p",
      "o", "n", "e", "n", "t">>

returnStatement(name) == <<"r", "e", "t", "u", "r", "n",
      " ">> \o name \o <<";">>

Spaces(n) == [i \in 1..n |-> " "]

\* STRATEGY B: the template literal around cleanBody
StrategyB(body) ==
  <<Newline>> \o Spaces(8) \o <<"c", "o", "n", "s", "t", " ", "D", "y", "n",
        "a", "m", "i", "c", "C", "o", "m", "p", "o", "n", "e", "n", "t", " ",
        "=", " ", "(", "p", "r", "o", "p", "s", ")", " ", "=", ">", " ", "{">>
  \o <<Newline>> \o Spaces(10) \o body
  \o <<Newline>> \o Spaces(8) \o <<"}", ";">> \o <<Newline>> \o Spaces(6)

\* Steps 1 and 2 of compileComponent: sourceCode and returnStatement
Sanitize(codeBody) ==
  LET cleanBody == StripImports(trim(codeBody))
      at == 1..Len(cleanBody)
  IN  IF hasExportDefault(cleanBody)
        THEN IF funcMatch(cleanBody) # <<>>
               THEN [sourceCode |->
                       Replace(cleanBody,
                               [i \in at |-> ExportDefaultFunction(cleanBody,
                                     i)],
                               <<"f", "u", "n", "c", "t", "i", "o", "n">>),
                     returnStatement |->
                       returnStatement(funcMatch(cleanBody))]
             ELSE IF varMatch(cleanBody) # <<>>
               THEN [sourceCode |->
                       Replace(cleanBody,
                               [i \in at |-> ExportDefaultStatement(cleanBody, i)],
                               <<>>),
                     returnStatement |->
                       returnStatement(varMatch(cleanBody))]
             ELSE [sourceCode |->
                     Replace(cleanBody,
                             [i \in at |-> ExportDefault(cleanBody, i)],
                             <<"c", "o", "n", "s", "t", " ", "D", "y", "n",
                                   "a", "m", "i", "c", "C", "o", "m", "p",
                                   "o", "n", "e", "n", "t", " ", "=", " ">>),
                   returnStatement |-> returnStatement(DynamicComponent)]
        ELSE [sourceCode |-> StrategyB(cleanBody),
              returnStatement |-> returnStatement(DynamicComponent)]

\* ---- the earliest compileComponent
\* /export\s+default\s+function\s+[\w]+\s*\([^\)]*\)\s*\{/
ExportWrapper(s, i) ==
  Lit(s,
      Star(s,
          Lit(s,
              Star(s,
                  Lit(s, Star(s, ExportDefaultFunctionName(s, i), Whitespace),
                      <<"(">>),
                  Alphabet \ {")"}),
              <<")">>),
          Whitespace),
      <<"{">>)

\* /\}\s*$/  (no m flag: $ is the end of the text)
LastBrace(s, i) ==
  IF s[i] = "}" /\ RunEnd(s, i + 1, Whitespace) = Len(s) + 1
    THEN Len(s) + 1
    ELSE 0

\* /^import\s+.*$/m
LegacyImportLine(s, i) ==
  IF AtLineStart(s, i)
    THEN Star(s, Plus(s, Lit(s, i, <<"i", "m", "p", "o", "r", "t">>),
          Whitespace), Dot)
    ELSE 0

LegacyWrap(body) ==
  <<Newline>> \o Spaces(6) \o <<"c", "o", "n", "s", "t", " ", "D", "y", "n",
        "a", "m", "i", "c", "C", "o", "m", "p", "o", "n", "e", "n", "t", " ",
        "=", " ", "(", "p", "r", "o", "p", "s", ")", " ", "=", ">", " ", "{">>
  \o <<Newline>> \o Spaces(8) \o body
  \o <<Newline>> \o Spaces(6) \o <<"}", ";">> \o <<Newline>> \o Spaces(4)

LegacySanitize(codeBody) ==
  LET trimmed == trim(codeBody)
      opened == Replace(trimmed,
                        [i \in 1..Len(trimmed) |-> ExportWrapper(trimmed, i)],
                        <<>>)
      stripped == IF Includes(trimmed, <<"e", "x", "p", "o", "r", "t", " ",
            "d", "e", "f", "a", "u", "l", "t", " ", "f", "u", "n", "c", "t",
            "i", "o", "n">>)
                    THEN Replace(opened,
                                 [i \in 1..Len(opened) |-> LastBrace(opened,
                                       i)],
                                 <<>>)
                    ELSE trimmed
      cleanBody == RemoveAll(stripped,
                     [i \in 1..Len(stripped) |-> LegacyImportLine(stripped,
                           i)])
  IN  [sourceCode |-> LegacyWrap(cleanBody),
       returnStatement |-> returnStatement(DynamicComponent)]

\* ---- the texts handed to compileComponent
MaxImports == 1      \* import lines at the top of a text
MaxTrailers == 2     \* top-level declarations after the component
MaxPasses == 2       \* times a text goes through compileComponent

ImportLines == {<<"i", "m", "p", "o", "r", "t", " ", "a", " ", "f", "r", "o",
      "m", " ", "'", "b", "'", ";", "\n">>, <<"i", "m", "p", "o", "r", "t",
      " ", "a", " ", "f", "r", "o", "m", " ", "'", "b", "'", "\n">>}

Prelude == <<"c", "o", "n", "s", "t", " ", "K", " ", "=", " ", "1", ";",
      "\n">>

TrailingDeclarations == {<<"\n", "f", "u", "n", "c", "t", "i", "o", "n", " ",
      "h", "(", ")", "{", "r", "e", "t", "u", "r", "n", " ", "2", "}">>,
      <<"\n", "c", "o", "n", "s", "t", " ", "k", " ", "=", " ", "2", ";">>}

Forms ==
  {"body", "function", "identifier", "arrow",
   "bareArrow", "functionExpression", "call"}

FormText ==
  [f \in Forms |->
     CASE f = "body"       -> <<"r", "e", "t", "u", "r", "n", " ", "<", "a",
           "/", ">", ";">>
       [] f = "function"   -> <<"e", "x", "p", "o", "r", "t", " ", "d", "e",
             "f", "a", "u", "l", "t", " ", "f", "u", "n", "c", "t", "i", "o",
             "n", " ", "F", "o", "o", "(", ")", "{", "r", "e", "t", "u", "r",
             "n", " ", "<", "a", "/", ">", "}">>
       [] f = "identifier" -> <<"c", "o", "n", "s", "t", " ", "F", "o", "o",
             " ", "=", " ", "(", ")", " ", "=", ">", " ", "<", "a", "/", ">",
             ";", "\n", "e", "x", "p", "o", "r", "t", " ", "d", "e", "f",
             "a", "u", "l", "t", " ", "F", "o", "o", ";">>
       [] f = "arrow"      -> <<"e", "x", "p", "o", "r", "t", " ", "d", "e",
             "f", "a", "u", "l", "t", " ", "(", ")", " ", "=", ">", " ", "<",
             "a", "/", ">", ";">>
       [] f = "bareArrow"  -> <<"e", "x", "p", "o", "r", "t", " ", "d", "e",
             "f", "a", "u", "l", "t", " ", "p", "r", "o", "p", "s", " ", "=",
             ">", " ", "<", "a", "/", ">", ";">>
       [] f = "functionExpression" ->
            <<"e", "x", "p", "o", "r", "t", " ", "d", "e", "f", "a", "u",
                  "l", "t", " ", "f", "u", "n", "c", "t", "i", "o", "n", "(",
                  ")", "{", "r", "e", "t", "u", "r", "n", " ", "<", "a", "/",
                  ">", "}">>
       [] f = "call" ->
            <<"c", "o", "n", "s", "t", " ", "F", "o", "o", " ", "=", " ",
                  "(", ")", " ", "=", ">", " ", "<", "a", "/", ">", ";",
                  "\n", "e", "x", "p", "o", "r", "t", " ", "d", "e", "f",
                  "a", "u", "l", "t", " ", "R", "e", "a", "c", "t", ".", "m",
                  "e", "m", "o", "(", "F", "o", "o", ")", ";">>]

SeqsUpTo(S, n) == UNION {[1..k -> S] : k \in 0..n}

\* ---- the runtime a text is compiled in
\* What happens to a text at each stage after sanitizing, by case: whether
\* window.Babel is there, the exception Babel.transform throws, the one
\* new Function throws, what the top level of the text throws when
\* createComponent runs it, the free identifier it reads there.
Environments ==
  [e \in {"runs", "noBabel", "babelRejects", "functionRejects", "throws",
          "throwsValue", "readsCapability", "readsGlobal", "readsUnbound"} |->
     [Babel |-> e # "noBabel",
      transform |->
        IF e = "babelRejects"
          THEN Exception("SyntaxError", "unknown: Unexpected token (3:10)")
          ELSE NoException,
      synthesis |->
        IF e = "functionRejects"
          THEN Exception("SyntaxError", "Unexpected token ';'")
          ELSE NoException,
      top |->
        CASE e = "throws" -> Exception("Error", "not ready")
          [] e = "throwsValue" ->
               [name |-> "", message |-> "", value |-> "not ready"]
          [] OTHER -> NoException,
      reads |->
        CASE e = "readsCapability" -> "useState"
          [] e = "readsGlobal" -> "document"
          [] e = "readsUnbound" -> "cannon"
          [] OTHER -> ""]]

\* The parameters of the function new Function builds
Parameters ==
  {"React", "THREE", "three", "useFrame", "useThree", "useLoader", "drei",
   "drive", "leva", "ReactThreeFiber", "Matter"}

\* The names its preamble destructures from React, leva and drei
Preamble ==
  {"useState", "useEffect", "useRef", "useMemo", "useCallback",
   "useLayoutEffect", "useReducer", "useControls", "button", "folder",
   "monitor", "Html", "Text", "Text3D", "Float", "Center", "OrbitControls",
   "Environment", "ContactShadows", "PerspectiveCamera",
   "OrthographicCamera", "Grid"}

CapabilitySet == Parameters \cup Preamble

\* Properties of the page's global object
HostGlobals == {"window", "document", "localStorage"}

\* How a free identifier of the function body resolves: a function made
\* by new Function closes over the global scope only
Resolve(id) ==
  IF id \in CapabilitySet THEN "capability"
  ELSE IF id \in HostGlobals THEN "global"
  ELSE "ReferenceError"

BabelAssumed(env) == TRUE

\* if (!window.Babel)
BabelLoaded(env) == env.Babel

Swallow(err) == NoException

\* catch (err) { console.error(...); throw err; }
Rethrow(err) == err

\* Steps 3 to 5 of compileComponent once window.Babel is there, and the
\* exception that leaves compileComponent (NoException: it returns
\* Component)
RunLoaded(env) ==
  IF env.transform # NoException
    THEN [steps |-> <<"Babel.transform">>,
          thrown |-> Rethrow(Rethrow(env.transform)), reached |-> {}]
  ELSE IF env.synthesis # NoException
    THEN [steps |-> <<"Babel.transform", "new Function">>,
          thrown |-> Rethrow(env.synthesis), reached |-> {}]
  ELSE IF env.reads # "" /\ Resolve(env.reads) = "ReferenceError"
    THEN [steps |-> <<"Babel.transform", "new Function", "createComponent">>,
          thrown |-> Rethrow(Exception("ReferenceError",
                                       env.reads \o " is not defined")),
          reached |-> {}]
  ELSE [steps |-> <<"Babel.transform", "new Function", "createComponent">>,
        thrown |-> Rethrow(env.top),
        reached |-> IF env.reads # "" /\ Resolve(env.reads) = "global"
                      THEN {env.reads} ELSE {}]

BabelNotLoaded ==
  Exception("Error",
            "Babel not loaded. Please ensure Babel is included in index.html")

Run(env) ==
  IF ~BabelLoaded(env)
    THEN [steps |-> <<>>, thrown |-> Rethrow(BabelNotLoaded), reached |-> {}]
    ELSE RunLoaded(env)

LegacyRun(env) ==
  IF ~env.Babel
    THEN [steps |-> <<>>,
          thrown |-> Rethrow(Exception("Error", "Babel not loaded")),
          reached |-> {}]
    ELSE RunLoaded(env)

\* Every text in a runtime where it runs, and the bare component of each
\* form in every runtime
Inputs ==
  [imports : SeqsUpTo(ImportLines, MaxImports),
   prelude : {<<>>, Prelude},
   form : Forms,
   trailers : SeqsUpTo(TrailingDeclarations, MaxTrailers),
   env : {"runs"}]
  \cup
  [imports : {<<>>}, prelude : {<<>>}, form : Forms, trailers : {<<>>},
   env : DOMAIN Environments]

RECURSIVE Join(_)
Join(parts) == IF parts = <<>> THEN <<>> ELSE Head(parts) \o Join(Tail(parts))

Text(in) ==
  Join(in.imports) \o in.prelude \o FormText[in.form] \o Join(in.trailers)

\* ---- compileComponent as a machine: one text, compiled once
SanInit == AppInit /\ input \in Inputs /\ output = NotCompiled /\ ServiceInit

compileComponent ==
  /\ output = NotCompiled
  /\ output' = [version |-> "current", pass |-> 1] @@ Sanitize(Text(input))
                  @@ Run(Environments[input.env])
  /\ UNCHANGED <<appVars, serviceVars, input>>

compileComponentLegacy ==
  /\ output = NotCompiled
  /\ output' = [version |-> "earliest", pass |-> 1]
                  @@ LegacySanitize(Text(input))
                  @@ LegacyRun(Environments[input.env])
  /\ UNCHANGED <<appVars, serviceVars, input>>

\* What compileComponent hands to new Function after the preamble: the
\* (transformed) sourceCode, an empty line, returnStatement
FunctionBody(out) ==
  out.sourceCode \o <<Newline>> \o Spaces(6) \o <<Newline>> \o Spaces(6)
  \o out.returnStatement

\* The text compileComponent built is handed to compileComponent again
compileComponentAgain ==
  /\ output.version \in {"current", "again"}
  /\ output.thrown = NoException
  /\ output.pass < MaxPasses
  /\ output' = [version |-> "again", pass |-> output.pass + 1]
                  @@ Sanitize(FunctionBody(output))
                  @@ Run(Environments[input.env])
  /\ UNCHANGED <<appVars, serviceVars, input>>

SanNext ==
  \/ compileComponent
  \/ compileComponentLegacy
  \/ compileComponentAgain

SanSpec == SanInit /\ [][SanNext]_vars

\* --------------------------------------------- services/storage.ts
\* Prompts and keys are texts (tuples of one-character strings).
UpperCase ==
  <<"A", "B", "C", "D", "E", "F", "G", "H", "I", "J", "K", "L", "M", "N", "O",
    "P", "Q", "R", "S", "T", "U", "V", "W", "X", "Y", "Z">>

LowerCase ==
  <<"a", "b", "c", "d", "e", "f", "g", "h", "i", "j", "k", "l", "m", "n", "o",
    "p", "q", "r", "s", "t", "u", "v", "w", "x", "y", "z">>

\* String.prototype.toLowerCase
toLowerCase(s) ==
  [i \in 1..Len(s) |->
     IF \E k \in 1..Len(UpperCase) : UpperCase[k] = s[i]
       THEN LowerCase[CHOOSE k \in 1..Len(UpperCase) : UpperCase[k] = s[i]]
       ELSE s[i]]

\* normalizePrompt(prompt): prompt.toLowerCase().trim()
normalizePrompt(prompt) == trim(toLowerCase(prompt))

\* Names every plain object inherits from Object.prototype (some of them)
ObjectPrototype == { <<"c", "o", "n", "s", "t", "r", "u", "c", "t", "o",
      "r">>, <<"t", "o", "S", "t", "r", "i", "n", "g">>, <<"v", "a", "l",
      "u", "e", "O", "f">> }

\* A plain object is the tuple of its own properties in insertion order.
\* existing[key]: the own property, else the inherited one, else undefined
Property(existing, key) ==
  LET own == SelectSeq(existing, LAMBDA e : e.key = key)
  IN  IF own # <<>> THEN own[1].value
      ELSE IF key \in ObjectPrototype THEN "function"
      ELSE "undefined"

\* existing[key] = data
Assign(existing, key, v) ==
  IF \E i \in 1..Len(existing) : existing[i].key = key
    THEN [i \in 1..Len(existing) |->
            IF existing[i].key = key THEN [key |-> key, value |-> v]
                                     ELSE existing[i]]
    ELSE Append(existing, [key |-> key, value |-> v])

\* delete existing[key]
Delete(existing, key) == SelectSeq(existing, LAMBDA e : e.key # key)

\* v || null, !!v for the values that occur
Truthy(v) == v \notin {"undefined", "null"}

\* JSON.stringify(existing): the properties in order; JSON.parse gives them
\* back
stringify(existing) == [present |-> TRUE, json |-> existing]

parse(raw) == raw.json

\* getStoredSimulations(): raw ? JSON.parse(raw) : {}
getStoredSimulations(item) == IF item.present THEN parse(item) ELSE <<>>

\* saveFixedSimulation(prompt, data): the item it writes
saveFixedSimulation(item, prompt, d) ==
  stringify(Assign(getStoredSimulations(item), normalizePrompt(prompt), d))

\* removeFixedSimulation(prompt): the item it writes
removeFixedSimulation(item, prompt) ==
  stringify(Delete(getStoredSimulations(item), normalizePrompt(prompt)))

\* getFixedSimulation(prompt): existing[key] || null
getFixedSimulation(item, prompt) ==
  LET v == Property(getStoredSimulations(item), normalizePrompt(prompt))
  IN  IF Truthy(v) THEN v ELSE "null"

\* isSimulationFixed(prompt): !!getFixedSimulation(prompt)
isSimulationFixed(item, prompt) == Truthy(getFixedSimulation(item, prompt))

MaxCalls == 3        \* calls of the storage functions

\* Prompts the functions are called with, and what is saved
Prompts == { <<"B", "a", "l", "l">>, <<" ", "b", "a", "l", "l", " ">>, <<"c",
      "r", "a", "d", "l", "e">>, <<"c", "o", "n", "s", "t", "r", "u", "c",
      "t", "o", "r">> }

SimulationResponses == { "d1", "d2" }

\* One call of a storage function: what it was called with and returned
Call(op, prompt, d, result) ==
  [op |-> op, prompt |-> prompt, data |-> d, result |-> result]

CallRoom == Len(calls) < MaxCalls

Save ==
  \E prompt \in Prompts, d \in SimulationResponses :
     /\ CallRoom
     /\ localStorage' = saveFixedSimulation(localStorage, prompt, d)
     /\ calls' = Append(calls, Call("save", prompt, d, "undefined"))
     /\ UNCHANGED <<appVars, input, output, GENERATION_CACHE, generated>>

Remove ==
  \E prompt \in Prompts :
     /\ CallRoom
     /\ localStorage' = removeFixedSimulation(localStorage, prompt)
     /\ calls' = Append(calls, Call("remove", prompt, "", "undefined"))
     /\ UNCHANGED <<appVars, input, output, GENERATION_CACHE, generated>>

Get ==
  \E prompt \in Prompts :
     /\ CallRoom
     /\ calls' = Append(calls, Call("get", prompt, "",
                                    getFixedSimulation(localStorage, prompt)))
     /\ UNCHANGED <<appVars, input, output, localStorage, GENERATION_CACHE,
           generated>>

IsFixed ==
  \E prompt \in Prompts :
     /\ CallRoom
     /\ calls' = Append(calls, Call("isFixed", prompt, "",
                                    isSimulationFixed(localStorage, prompt)))
     /\ UNCHANGED <<appVars, input, output, localStorage, GENERATION_CACHE,
           generated>>

StoreNext == Save \/ Remove \/ Get \/ IsFixed

StoreSpec == Init /\ [][StoreNext]_vars

\* --------------------------------------------- services/gemini.ts
\* generateSimulation, latest version.  GENERATION_CACHE is a plain object:
\* the tuple of its own properties, read as in Property.

rawPrompt(userPrompt) == userPrompt

\* const lowerPrompt = userPrompt.toLowerCase().trim()
lowerPrompt(userPrompt) == trim(toLowerCase(userPrompt))

\* Object.keys(PERFECT_SIMULATIONS), as texts
VaultKeys ==
  << [text |-> <<"n", "e", "w", "t", "o", "n", "'", "s", " ", "c", "r", "a",
        "d", "l", "e">>, key |-> "newton's cradle"],
     [text |-> <<"d", "o", "u", "b", "l", "e", " ", "p", "e", "n", "d", "u",
           "l", "u", "m">>, key |-> "double pendulum"] >>

\* Object.keys(PERFECT_SIMULATIONS).find(key => lowerPrompt.includes(key)):
\* the key found ("" : undefined)
vaultMatch(lower) ==
  LET hits == { i \in 1..Len(VaultKeys) : Includes(lower, VaultKeys[i].text) }
  IN  IF hits = {} THEN "" ELSE VaultKeys[Least(hits)].key

\* What GENERATION_CACHE[key] gives for a name inherited from
\* Object.prototype: a function, which has no title and no componentCode
InheritedMember == [title |-> "undefined", code |-> "undefined"]

\* if (GENERATION_CACHE[lowerPrompt])
CacheHit(cache, key) ==
  (\E i \in 1..Len(cache) : cache[i].key = key) \/ key \in ObjectPrototype

\* GENERATION_CACHE[lowerPrompt], when it is truthy
Cached(cache, key) ==
  LET own == SelectSeq(cache, LAMBDA e : e.key = key)
  IN  IF own # <<>> THEN own[1].value ELSE InheritedMember

\* What the two calls of the model come to: the research call rejects, the
\* coding call rejects, the coding call has no text, its text is not JSON,
\* or it is the JSON of a result
ModelAnswers ==
  [kind : {"researchFails", "codeFails", "noText", "notJson"}, json : {NoSim}]
    \cup [kind : {"json"}, json : ModelResults]

\* err.message of what generateSimulation throws for an answer
Rejection(answer) ==
  CASE answer.kind = "researchFails" -> "429 Too Many Requests"
    [] answer.kind = "codeFails"     -> "429 Too Many Requests"
    [] answer.kind = "noText"        -> "No response from Gemini"
    [] answer.kind = "notJson"       -> "Unexpected token"
    [] OTHER -> "Simulation generation failed validation: No 3D objects detected."

\* generateSimulation(userPrompt) with the cache as it is and the model
\* answering as given: the cache it leaves and the record of the call
generateSimulation(cache, userPrompt, answer) ==
  LET key == lowerPrompt(userPrompt)
      call == [NoCall EXCEPT !.prompt = userPrompt]
  IN  IF vaultMatch(key) # ""
        THEN [cache |-> cache,
              call |-> [call EXCEPT !.outcome = "resolved",
                                    !.value = PERFECT_SIMULATIONS[vaultMatch(key)]]]
      ELSE IF CacheHit(cache, key)
        THEN [cache |-> cache,
              call |-> [call EXCEPT !.outcome = "resolved",
                                    !.value = Cached(cache, key),
                                    !.cacheReads = 1]]
      ELSE IF answer.kind = "json" /\ validateSimulationCode(answer.json.code)
        THEN [cache |-> Assign(cache, key, answer.json),
              call |-> [call EXCEPT !.outcome = "resolved",
                                    !.value = answer.json,
                                    !.cacheReads = 1,
                                    !.modelCalls = 2]]
      ELSE   [cache |-> cache,
              call |-> [call EXCEPT !.outcome = "rejected",
                                    !.message = Rejection(answer),
                                    !.cacheReads = 1,
                                    !.modelCalls =
                                       IF answer.kind = "researchFails" THEN 1 ELSE 2]]

\* Prompts generateSimulation is called with
GenPrompts ==
  { <<"N", "e", "w", "t", "o", "n", "'", "s", " ", "C", "r", "a", "d", "l",
        "e">>, <<"B", "o", "u", "n", "c", "i", "n", "g", " ", "B", "a", "l",
        "l">>, <<" ", "b", "o", "u", "n", "c", "i", "n", "g", " ", "b", "a",
        "l", "l", " ">>, <<"P", "e", "n", "d", "u", "l", "u", "m", " ", "w",
        "a", "v", "e">>,
    <<"c", "o", "n", "s", "t", "r", "u", "c", "t", "o", "r">> }

Generate ==
  \E userPrompt \in GenPrompts, answer \in ModelAnswers :
     LET r == generateSimulation(GENERATION_CACHE, userPrompt, answer)
     IN  /\ GENERATION_CACHE' = r.cache
         /\ generated' = r.call
         /\ UNCHANGED <<appVars, input, output, localStorage, calls>>

GenNext == Generate

GenSpec == Init /\ [][GenNext]_vars

\* ------------------------------------------------------------- claims

\* C1 (as claimed): whenever no request is pending, a new prompt or a
\* library selection is accepted, i.e. status is READY or IDLE.
C1_ReadyWhenNothingPending == pending = <<>> => Idle

\* C2 (as claimed): when a request that installs a source settles after
\* another source was installed or a reset happened since it began, its
\* result is discarded: the current source, the mount generation and the
\* mounted component stay as they were.
C2_LateResultDiscarded ==
  [][ (\E i \in 1..Len(pending) :
          /\ pending[i].kind \in Installers
          /\ pending[i].startKey # refreshKey
          /\ pending' = RemoveAt(pending, i))
      => (data' = data /\ refreshKey' = refreshKey /\ scene' = scene) ]_vars

\* C3 (as claimed): a step in which ErrorBoundary catches an exception of
\* the mounted component calls onError exactly once.
C3_BoundaryReportsOnce == ev.caught = 1 => ev.onError = 1

\* C4 (as claimed): a reset after the current source failed installs a
\* different source, which runs, and no error is reported.
C4_ResetRecovers ==
  [][ (SourceFailed /\ ResetStep)
      => (data'.code # data.code /\ Running' /\ error' = NoError) ]_vars

\* C5: in a frame tick, every callback registered through the frame gate
\* (customUseFrame) runs zero times if the pause flag is set and exactly
\* once if it is not, however many are registered.
C5_GatePausesAll ==
  ev.tick => \A i \in 1..Len(subs) :
                FrameCapabilities[subs[i]] => ev.ran[i] = (IF paused THEN 0 ELSE 1)

\* C5 witness: a tick while paused with three gated callbacks registered,
\* none of which ran
C5_Witness ==
  /\ ev.tick /\ paused
  /\ Len(subs) = 3
  /\ \A i \in 1..3 : FrameCapabilities[subs[i]] /\ ev.ran[i] = 0

\* C6 (as claimed): no callback the compiled code registered, through
\* whichever capability, runs in a frame tick while the pause flag is set.
C6_NothingRunsWhilePaused ==
  (ev.tick /\ paused) => \A i \in 1..Len(subs) : ev.ran[i] = 0

\* C7 (as claimed): whenever the current source failed, the Canvas with the
\* shared scene is mounted and shows the diagnostic placeholder.
C7_SceneSurvivesFailure ==
  SourceFailed => (SceneView.canvas /\ SceneView.content = "ErrorFallback")

\* C8: once the current source failed to compile or to mount, no step
\* compiles or mounts anything unless it changes refreshKey (a generation,
\* modification, library selection or reset the user asked for): not the
\* re-render after onError, not a pause toggle, nothing else.
C8_NoAutoRetry ==
  [][ (SourceFailed /\ refreshKey' = refreshKey)
      => (ev'.compiles = 0 /\ ev'.mounts = 0 /\ scene' = scene) ]_vars

\* C8 witness: the source failed to compile, the user then toggled pause
\* (DynamicScene re-rendered) and nothing was compiled
C8_Witness ==
  /\ ~scene.Component /\ error # NoError
  /\ paused /\ ev = NoEvents

\* C9: compileComponent classifies a text that has no import lines by its
\* shape.  Without a default export the whole text becomes the body of the
\* function bound to DynamicComponent, which is returned; 'export default
\* function Foo(){...}' becomes the plain function Foo and Foo is returned;
\* 'export default Foo;' after a definition of Foo is removed and Foo is
\* returned; 'export default () => <a/>;' becomes a binding of
\* DynamicComponent, which is returned.  Whatever stands before and after
\* the component is kept as it is.
C9_ShapeClassification ==
  (output.version = "current" /\ input.imports = <<>>
     /\ input.form \in {"body", "function", "identifier", "arrow"}) =>
    LET before == input.prelude
        after == Join(input.trailers)
        rewritten ==
          CASE input.form = "body" ->
                 StrategyB(before \o <<"r", "e", "t", "u", "r", "n", " ",
                       "<", "a", "/", ">", ";">> \o after)
            [] input.form = "function" ->
                 before \o <<"f", "u", "n", "c", "t", "i", "o", "n", " ",
                       "F", "o", "o", "(", ")", "{", "r", "e", "t", "u", "r",
                       "n", " ", "<", "a", "/", ">", "}">> \o after
            [] input.form = "identifier" ->
                 before \o <<"c", "o", "n", "s", "t", " ", "F", "o", "o",
                       " ", "=", " ", "(", ")", " ", "=", ">", " ", "<", "a",
                       "/", ">", ";", "\n">> \o after
            [] input.form = "arrow" ->
                 before \o <<"c", "o", "n", "s", "t", " ", "D", "y", "n",
                       "a", "m", "i", "c", "C", "o", "m", "p", "o", "n", "e",
                       "n", "t", " ", "=", " ", "(", ")", " ", "=", ">", " ",
                       "<", "a", "/", ">", ";">> \o after
        target ==
          IF input.form \in {"function", "identifier"}
            THEN <<"F", "o", "o">>
            ELSE <<"D", "y", "n", "a", "m", "i", "c", "C", "o", "m", "p",
                  "o", "n", "e", "n", "t">>
    IN  /\ output.sourceCode = rewritten
        /\ output.returnStatement = <<"r", "e", "t", "u", "r", "n",
              " ">> \o target \o <<";">>

C9_Witness ==
  /\ output.version = "current"
  /\ input.imports = <<>> /\ input.prelude # <<>> /\ input.trailers # <<>>
  /\ input.form = "identifier"
  /\ output.returnStatement = <<"r", "e", "t", "u", "r", "n", " ", "F", "o",
        "o", ";">>

\* C10 (as claimed): when a default-exported function is followed by
\* further top-level declarations, the text compileComponent builds still
\* contains those declarations, character for character.
C10_TrailingDeclarationsPreserved ==
  (output.version \in {"current", "earliest"} /\ input.form = "function"
     /\ input.trailers # <<>>)
    => Includes(output.sourceCode, Join(input.trailers))

\* How many times the Strategy B wrapper occurs in a text
Wrappers(src) ==
  Cardinality({i \in 1..Len(src) :
                 Lit(src, i, <<"c", "o", "n", "s", "t", " ", "D", "y", "n",
                       "a", "m", "i", "c", "C", "o", "m", "p", "o", "n", "e",
                       "n", "t", " ", "=", " ", "(", "p", "r", "o", "p", "s",
                       ")", " ", "=", ">", " ", "{">>) # 0})

\* C11 (as claimed): handing the text compileComponent built (sourceCode
\* followed by returnStatement) to compileComponent again gives the same
\* component: the pass adds no wrapper around the text, and the new text
\* does not contain the statement returning the previous call target, so
\* that the new component would return the previous component instead of
\* rendering what it rendered.
C11_SanitizeIdempotent ==
  [][ output'.version = "again"
        => /\ Wrappers(output'.sourceCode) = Wrappers(output.sourceCode)
           /\ ~Includes(output'.sourceCode, output.returnStatement) ]_vars

\* C12 (as claimed): when the top level of the compiled text reads an
\* identifier that is neither a parameter of the synthesized function nor
\* a name of its preamble, compileComponent fails with a ReferenceError and
\* nothing of the page's global object has been reached.
C12_OnlyCapabilitiesReachable ==
  (output.version = "current"
     /\ Environments[input.env].reads \notin CapabilitySet \cup {""})
    => (output.thrown.name = "ReferenceError" /\ output.reached = {})

\* C13: when window.Babel is not there, compileComponent throws its own
\* error before Babel.transform, new Function or createComponent is
\* called, and the message the host gets for it differs from the message
\* it gets for every syntax error Babel reports.
C13_TranspilerUnavailable ==
  (output.version = "current" /\ ~Environments[input.env].Babel) =>
    /\ output.steps = <<>>
    /\ output.thrown.name = "Error"
    /\ output.thrown.message # ""
    /\ \A e \in DOMAIN Environments :
         Environments[e].transform # NoException
           => onErrorMessage(Environments[e].transform)
                # onErrorMessage(output.thrown)

C13_Witness ==
  /\ output.version = "current"
  /\ input.env = "noBabel" /\ input.form = "function"
  /\ output.steps = <<>>
  /\ output.thrown.message
       = "Babel not loaded. Please ensure Babel is included in index.html"

\* C14 (as claimed): an exception raised by Babel.transform, by new
\* Function or by the invocation of the synthesized function leaves
\* compileComponent as it was raised, and what the host passes to onError
\* is that exception's diagnostic: its message, or the value thrown when
\* the text threw something that is not an Error.
C14_HostGetsDiagnostic ==
  LET env == Environments[input.env]
      raised == IF env.transform # NoException THEN env.transform
                ELSE IF env.synthesis # NoException THEN env.synthesis
                ELSE env.top
  IN  (output.version = "current" /\ env.Babel /\ env.reads = ""
         /\ raised # NoException)
        => /\ output.thrown = raised
           /\ onErrorMessage(output.thrown)
                = IF raised.value # "" THEN raised.value ELSE raised.message

\* C14 (amended): the exception leaves compileComponent as it was raised,
\* and the host passes its message to onError unchanged when it has one,
\* and the text 'Failed to compile code' when it has none.
C14_HostGetsMessageOrFallback ==
  LET env == Environments[input.env]
      raised == IF env.transform # NoException THEN env.transform
                ELSE IF env.synthesis # NoException THEN env.synthesis
                ELSE env.top
  IN  (output.version = "current" /\ env.Babel /\ env.reads = ""
         /\ raised # NoException)
        => /\ output.thrown = raised
           /\ output.steps # <<>>
           /\ onErrorMessage(output.thrown)
                = IF raised.message # "" THEN raised.message
                  ELSE "Failed to compile code"

C14_Witness ==
  /\ output.version = "current"
  /\ input.env = "throwsValue"
  /\ output.thrown.value = "not ready"
  /\ output.steps = <<"Babel.transform", "new Function", "createComponent">>

\* C15: a step that changes the current source text (data.code), and
\* every handleReset, increments refreshKey in the same step, and the
\* commit of that step replaces the DynamicScene instance by one with the
\* new key, which compiles the current text.
C15_SourceChangeRemounts ==
  [][ (data'.code # data.code \/ handleReset)
        => /\ refreshKey' = refreshKey + 1
           /\ scene'.key = refreshKey' /\ scene'.key # scene.key
           /\ scene'.memoCode = data'.code
           /\ ev'.compiles = 1 ]_vars

\* C15 witness: a modification has replaced the initial text and the new
\* text was mounted under the next key
C15_Witness ==
  /\ refreshKey = 1 /\ scene.key = 1
  /\ data.code = "gen_ok" /\ scene.memoCode = "gen_ok"
  /\ ev.mounts = 1

\* C16: no step decreases refreshKey, and a step that changes it adds
\* exactly one.
C16_KeyMonotonic ==
  [][ refreshKey' = refreshKey \/ refreshKey' = refreshKey + 1 ]_vars

\* C16 witness: the key has been incremented twice, the second time by a
\* reset
C16_Witness ==
  /\ refreshKey = 2 /\ scene.key = 2
  /\ data.code = "lib_cradle"
  /\ pending = <<>> /\ status = "READY"

\* C17: the step that changes the pause flag also sets the flag the gate
\* reads, so that in every frame tick each callback registered through the
\* gate, by the component or by its sub-components, runs or not according
\* to the pause flag as it is when the tick begins.
C17_PauseTakesEffectNextTick ==
  [][ /\ paused' # paused => simSettings' = paused'
      /\ ev'.tick =>
           \A i \in 1..Len(subs) :
              FrameCapabilities[subs[i]]
                => ev'.ran[i] = (IF paused THEN 0 ELSE 1) ]_vars

\* C17 witness: a tick after the flag was set, with the two callbacks of
\* the cradle and its sub-component registered and neither run
C17_Witness ==
  /\ ev.tick /\ paused /\ simSettings
  /\ scene.memoCode = "lib_cradle"
  /\ subs = <<"useFrame", "useFrame">>
  /\ ev.ran = <<0, 0>>

\* C18: in a frame tick while not paused, every callback registered
\* through the gate receives the state and the delta the scheduler passed
\* in that tick; and when a component mounts, each of its registrations
\* through the gate is subscribed with the priority the component asked
\* for.
C18_GateForwardsUnchanged ==
  /\ (ev.tick /\ ~paused) =>
       \A i \in 1..Len(subs) :
          FrameCapabilities[subs[i]] => ev.got[i] = <<"state", ev.delta>>
  /\ (ev.mounts = 1 /\ ~scene.hasError) =>
       \A i \in 1..Len(subs) :
          FrameCapabilities[subs[i]]
            => ev.registered[i] = Priorities(scene.memoCode)[i]

\* C18 witness: a tick while not paused in which the three callbacks of
\* the generated scene, one of them registered with priority 1, received
\* the state and a delta of 33
C18_Witness ==
  /\ ev.tick /\ ~paused /\ ev.delta = 33
  /\ scene.memoCode = "gen_ok" /\ Len(subs) = 3
  /\ Priorities(scene.memoCode)[2] = 1
  /\ \A i \in 1..3 : ev.got[i] = <<"state", 33>>

\* C19 (as claimed): when a text without import lines exports an anonymous
\* expression as default (an arrow function with or without parentheses
\* around its parameter, a function expression, a call), compileComponent
\* puts 'const DynamicComponent = ' in the place of 'export default ',
\* leaves the expression and everything around it as it is, and returns
\* DynamicComponent.
C19_AnonymousExportsBound ==
  (output.version = "current" /\ input.imports = <<>>
     /\ input.form \in {"arrow", "bareArrow", "functionExpression", "call"})
    =>
    LET expression ==
          CASE input.form = "arrow" -> <<"(", ")", " ", "=", ">", " ", "<",
                "a", "/", ">", ";">>
            [] input.form = "bareArrow" -> <<"p", "r", "o", "p", "s", " ",
                  "=", ">", " ", "<", "a", "/", ">", ";">>
            [] input.form = "functionExpression" ->
                 <<"f", "u", "n", "c", "t", "i", "o", "n", "(", ")", "{",
                       "r", "e", "t", "u", "r", "n", " ", "<", "a", "/", ">",
                       "}">>
            [] input.form = "call" -> <<"R", "e", "a", "c", "t", ".", "m",
                  "e", "m", "o", "(", "F", "o", "o", ")", ";">>
        lead == IF input.form = "call" THEN <<"c", "o", "n", "s", "t", " ",
              "F", "o", "o", " ", "=", " ", "(", ")", " ", "=", ">", " ",
              "<", "a", "/", ">", ";", "\n">>
                ELSE <<>>
    IN  /\ output.sourceCode
             = input.prelude \o lead \o <<"c", "o", "n", "s", "t", " ", "D",
                   "y", "n", "a", "m", "i", "c", "C", "o", "m", "p", "o",
                   "n", "e", "n", "t", " ", "=", " ">>
               \o expression \o Join(input.trailers)
        /\ output.returnStatement = <<"r", "e", "t", "u", "r", "n", " ", "D",
              "y", "n", "a", "m", "i", "c", "C", "o", "m", "p", "o", "n",
              "e", "n", "t", ";">>

\* C20 (as claimed): for a text that begins with import lines, with or
\* without a semicolon at their end, the text compileComponent builds
\* contains no import any more and still contains every other line that
\* the export rewriting does not touch: the declarations before and after
\* the component, and the body when the text is a body.
C20_OnlyImportsRemoved ==
  (output.version = "current" /\ input.imports # <<>>) =>
    /\ ~Includes(output.sourceCode, <<"i", "m", "p", "o", "r", "t">>)
    /\ Includes(output.sourceCode, input.prelude)
    /\ \A i \in 1..Len(input.trailers) :
         Includes(output.sourceCode, input.trailers[i])
    /\ input.form = "body" => Includes(output.sourceCode, <<"r", "e", "t",
          "u", "r", "n", " ", "<", "a", "/", ">", ";">>)

\* Source texts the model client produced
ModelProduced == { r.code : r \in ModelResults }

\* C21 (as claimed): the current source is never a text the model produced
\* that fails validateSimulationCode, whether it came from a generation or
\* from a modification.
C21_InvalidSourceNeverInstalled ==
  data.code \in ModelProduced => validateSimulationCode(data.code)

\* A request of one of the given kinds is suspended at its await
PendingOf(kinds) == \E i \in 1..Len(pending) : pending[i].kind \in kinds

\* C22 (as claimed): status is GENERATING only while a generation or a
\* library load is pending, MODIFYING only while a modification is pending,
\* EXPLAINING only while an explanation is pending; with nothing pending it
\* is IDLE, READY or ERROR.
C22_BusyOnlyWhilePending ==
  /\ status = "GENERATING" => PendingOf({"generate", "preset"})
  /\ status = "MODIFYING" => PendingOf({"modify"})
  /\ status = "EXPLAINING" => PendingOf({"explain"})
  /\ pending = <<>> => status \in {"IDLE", "READY", "ERROR"}

\* C23: at most one request that installs a source (generation,
\* modification, library load) is pending at any time; status is never
\* READY or IDLE while one is pending; and a step that starts one is taken
\* from status READY or IDLE.  Explanation requests may overlap with it.
C23_OneInstallerAtATime ==
  /\ [](InstallersPending <= 1)
  /\ [](InstallersPending > 0 => status \notin {"READY", "IDLE"})
  /\ [][InstallersPending' > InstallersPending
          => status \in {"READY", "IDLE"}]_vars

\* C23 witness: an explanation that began during an earlier generation is
\* still pending, that generation has settled and the next installing
\* request is pending beside it
C23_Witness ==
  /\ Len(pending) = 2
  /\ pending[1].kind = "explain" /\ pending[1].originalStatus = "GENERATING"
  /\ pending[2].kind \in Installers
  /\ refreshKey = 1

\* A step in which the explanation request pending[i] begins / settles
ExplanationBegins ==
  /\ Len(pending') = Len(pending) + 1
  /\ pending'[Len(pending')].kind = "explain"

ExplanationSettles(i) ==
  /\ i \in 1..Len(pending)
  /\ pending[i].kind = "explain"
  /\ pending' = RemoveAt(pending, i)

C25_FailedModificationKeepsScene ==
  [][ \A i \in 1..Len(pending) :
        ModificationFails(i)
          => /\ data' = data /\ refreshKey' = refreshKey
             /\ scene' = scene /\ subs' = subs
             /\ ev'.compiles = 0 /\ ev'.mounts = 0
             /\ error' \notin {NoError, ""}
             /\ status' = "READY" ]_vars

\* C25 witness: a modification of the running initial scene has failed:
\* the message is shown, status is READY, the initial scene is still the
\* one running
C25_Witness ==
  /\ error = "Failed to modify simulation. Try a simpler request."
  /\ status = "READY" /\ pending = <<>>
  /\ data = InitialData /\ refreshKey = 0
  /\ scene.key = 0 /\ Running /\ subs = Subscribe(INITIAL_CODE)

\* C26: the step in which a generation request fails leaves the current
\* source text and refreshKey as they are, sets status to ERROR and sets a
\* non-empty error message: the failure's message, or 'Failed to generate
\* simulation.' when it has none.
C26_FailedGenerationKeepsSource ==
  [][ \A i \in 1..Len(pending), m \in GenerateFailures :
        GenerationFails(i, m)
          => /\ data' = data /\ refreshKey' = refreshKey
             /\ scene' = scene
             /\ status' = "ERROR"
             /\ error' \notin {NoError, ""}
             /\ error' = (IF m # "" THEN m ELSE "Failed to generate simulation.")
    ]_vars

\* C26 witness: a generation failed with an error that has no message: the
\* fallback is shown, status is ERROR, the initial source is the current one
C26_Witness ==
  /\ status = "ERROR" /\ error = "Failed to generate simulation."
  /\ pending = <<>>
  /\ data.code = INITIAL_CODE /\ refreshKey = 0 /\ scene.key = 0

\* C27: a step that flips the pause flag compiles nothing and mounts
\* nothing: the DynamicScene instance, the component compiled for it, its
\* frame subscriptions and refreshKey are the same after the step as before
\* it, so also after any number of such steps.
C27_PauseToggleKeepsComponent ==
  [][ paused' # paused
        => /\ refreshKey' = refreshKey
           /\ scene' = scene /\ subs' = subs
           /\ data' = data
           /\ ev'.compiles = 0 /\ ev'.mounts = 0 ]_vars

\* C27 witness: a generated scene runs under key 1 and is paused; the
\* toggle, the last step, compiled and mounted nothing and the gate has
\* the new value
C27_Witness ==
  /\ paused /\ simSettings
  /\ ev = NoEvents
  /\ refreshKey = 1 /\ scene.key = 1 /\ scene.memoCode = "gen_ok"
  /\ Running /\ subs = Subscribe("gen_ok")

\* Source texts that came from imported files
Imported == { f.code : f \in ImportFiles }

\* A step in which a library selection settles (handlePresetClick after
\* its delay)
LibrarySelectionSettles ==
  \E i \in 1..Len(pending) :
     pending[i].kind = "preset" /\ pending' = RemoveAt(pending, i)

\* C28 (as claimed): a step that changes customSims (a file import) adds
\* one entry at the end and keeps the entries there were, and leaves data,
\* the mounted scene, refreshKey, status and the pending requests as they
\* are; and a step that makes an imported text the current source is a
\* library selection settling.
C28_ImportOnlyAddsEntry ==
  [][ /\ customSims' # customSims
        => /\ Len(customSims') = Len(customSims) + 1
           /\ SubSeq(customSims', 1, Len(customSims)) = customSims
           /\ data' = data /\ scene' = scene /\ subs' = subs
           /\ refreshKey' = refreshKey /\ status' = status
           /\ pending' = pending
      /\ (data'.code \in Imported /\ data'.code # data.code)
        => LibrarySelectionSettles ]_vars

\* p and q are equal up to case and surrounding whitespace
SameKey(p, q) == trim(toLowerCase(p)) = trim(toLowerCase(q))

\* The last save or remove before call j whose prompt is the same key as
\* that of call j (0: none)
LastWrite(j) ==
  LET writes == { i \in 1..(j - 1) :
                    /\ calls[i].op \in {"save", "remove"}
                    /\ SameKey(calls[i].prompt, calls[j].prompt) }
  IN  IF writes = {} THEN 0 ELSE Greatest(writes)

\* C29 (as claimed): the storage functions behave as a map keyed by the
\* prompt up to case and surrounding whitespace.  A get returns what the
\* last save under its key saved, if no remove of the key came after it;
\* isSimulationFixed is false when the last write of the key was a remove;
\* saves and removes under other keys change neither.
C29_StorageIsMap ==
  \A j \in 1..Len(calls) :
     LET w == LastWrite(j)
     IN  /\ (calls[j].op = "get" /\ w # 0 /\ calls[w].op = "save")
              => calls[j].result = calls[w].data
         /\ (calls[j].op = "isFixed" /\ w # 0 /\ calls[w].op = "save")
              => calls[j].result = TRUE
         /\ (calls[j].op = "isFixed" /\ w # 0 /\ calls[w].op = "remove")
              => calls[j].result = FALSE

\* The own entry of the cache under a key (<<>>: none)
Entry(key) == SelectSeq(GENERATION_CACHE, LAMBDA e : e.key = key)

\* C30: every entry of GENERATION_CACHE is a result of the model that uses
\* a scene primitive and returns an expression in parentheses, and its key
\* is a prompt in lower case without surrounding whitespace.  A call that
\* is rejected leaves the cache as it is.  A call whose prompt contains a
\* library key resolves with the library entry, reads no cache entry, asks
\* no model and leaves the cache as it is.  A call whose prompt (without a
\* library key) has an entry resolves with that entry, asks no model and
\* leaves the cache as it is.  A call that resolves with what the model
\* answered puts that under the prompt's key.
C30_CacheHoldsValidatedResults ==
  /\ [](\A i \in 1..Len(GENERATION_CACHE) :
          LET e == GENERATION_CACHE[i]
          IN  /\ e.value \in ModelResults
              /\ hasMesh(e.value.code) /\ hasReturn(e.value.code)
              /\ e.key = trim(toLowerCase(e.key))
              /\ \E p \in GenPrompts : e.key = trim(toLowerCase(p)))
  /\ [][ LET key == trim(toLowerCase(generated'.prompt))
             inVault == \E i \in 1..Len(VaultKeys) : Includes(key,
                   VaultKeys[i].text)
         IN  /\ generated'.outcome = "rejected"
                  => GENERATION_CACHE' = GENERATION_CACHE
             /\ inVault
                  => /\ generated'.outcome = "resolved"
                     /\ generated'.value \in
                          { PERFECT_SIMULATIONS[k] : k \in DOMAIN PERFECT_SIMULATIONS }
                     /\ generated'.cacheReads = 0 /\ generated'.modelCalls = 0
                     /\ GENERATION_CACHE' = GENERATION_CACHE
             /\ (~inVault /\ Entry(key) # <<>>)
                  => /\ generated'.outcome = "resolved"
                     /\ generated'.value = Entry(key)[1].value
                     /\ generated'.modelCalls = 0
                     /\ GENERATION_CACHE' = GENERATION_CACHE
             /\ (generated'.outcome = "resolved" /\ generated'.modelCalls > 0)
                  => /\ Entry(key) = <<>>
                     /\ GENERATION_CACHE' =
                          Append(GENERATION_CACHE,
                                 [key |-> key, value |-> generated'.value])
       ]_vars

\* C30 witness: the last call, with ' bouncing ball ', resolved with the
\* entry stored under 'bouncing ball' without asking the model, and there
\* is a second entry in the cache
C30_Witness ==
  /\ generated.prompt = <<" ", "b", "o", "u", "n", "c", "i", "n", "g", " ",
        "b", "a", "l", "l", " ">>
  /\ generated.outcome = "resolved" /\ generated.modelCalls = 0
  /\ Len(GENERATION_CACHE) = 2
  /\ GENERATION_CACHE[2].key = <<"b", "o", "u", "n", "c", "i", "n", "g", " ",
        "b", "a", "l", "l">>
  /\ GENERATION_CACHE[2].value = generated.value
  /\ generated.value.code = "gen_raw"

====
